---- MODULE Spec2Model ----
(***************************************************************************)
(* Rolling-window rate limiter (peterkhayes/rolling-rate-limiter).         *)
(*                                                                         *)
(* Two revisions of the TypeScript limiter are modelled side by side:      *)
(*   version = "current" : src/src/index.ts   (one timestamp per call,     *)
(*                         guarded min-difference test, wouldLimit reads   *)
(*                         the clock after getTimestamps)                  *)
(*   version = "bulk"    : src/unnamed/part_008 (limit(id, count),         *)
(*                         unguarded min-difference test, wouldLimit reads *)
(*                         the clock before getTimestamps)                 *)
(* and two backends: the in-memory limiter of one process and the Redis    *)
(* limiter shared by several processes.  All times are microseconds.       *)
(***************************************************************************)
EXTENDS Integers, Sequences, FiniteSets, TLC

VARIABLES
  version,        \* which revision of the source is running
  backend,        \* "memory" or "redis"
  interval,       \* RateLimiter.interval (microseconds)
  maxInInterval,  \* RateLimiter.maxInInterval
  minDifference,  \* RateLimiter.minDifference (microseconds)
  now,            \* microtime.now() of the reference clock
  advances,       \* how many times the clock has moved
  storage,        \* InMemoryRateLimiter.storage : id -> array of timestamps
  ttls,           \* InMemoryRateLimiter.ttls    : id -> deadline of the pending timer
  timers,         \* the timers pending in the event loop, each [id, deadline]
  zsets,          \* Redis: key -> set of [member, score]
  expireAt,       \* Redis: key -> instant at which the key expires
  nextUuid,       \* source of uuid() values
  ids,            \* the identifiers the callers use
  namespaces,     \* Redis: process -> namespace of its limiter
  options,        \* the options object passed to the constructor
  limiter,        \* "none" before the constructor runs, then "constructed" or "threw"
  calls           \* every call issued so far, in issue order, with its progress

vars == <<version, backend, interval, maxInInterval, minDifference, now, advances,
          storage, ttls, timers, zsets, expireAt, nextUuid, ids, namespaces, options,
          limiter, calls>>

config == <<version, backend, interval, maxInInterval, minDifference, ids, namespaces,
            options, limiter>>

(***************************************************************************)
(* Bounds of the model.                                                    *)
(***************************************************************************)
MaxMemCalls == 4
MaxRedisCalls == 3
MaxRemoteCalls == 1
MaxAdvances == 2
MaxInFlight == 2
MaxCount == 2
ClockSkew == 1
MaxFailures == 1
MaxLegacyCalls == 4
MaxLegacyAdvances == 6
MaxPairCalls == 3
MaxPairAdvances == 4

MemProcs == {1}
RedisProcs == {1, 2}

(***************************************************************************)
(* Time units and their conversions.                                       *)
(***************************************************************************)
MicrosPerMilli == 1000

Max(a, b) == IF a >= b THEN a ELSE b

\* Math.ceil(x / d) for d > 0
Ceil(x, d) == -((-x) \div d)

millisecondsToMicroseconds(milliseconds) == MicrosPerMilli * milliseconds

microsecondsToMilliseconds(microseconds) == Ceil(microseconds, MicrosPerMilli)

\* A conversion that rounds down.
microsecondsToSecondsFloor(microseconds) == microseconds \div (MicrosPerMilli * MicrosPerMilli)

microsecondsToSeconds(microseconds) == Ceil(microseconds, MicrosPerMilli * MicrosPerMilli)

\* microtime.now() as read by process p; process 2's clock runs ahead.
getCurrentMicroseconds(p) == IF p = 1 THEN now ELSE now + ClockSkew

(***************************************************************************)
(* Configurations the constructor accepts (milliseconds).                  *)
(***************************************************************************)
Configurations ==
  { [interval |-> 2000, maxInInterval |-> 1, minDifference |-> 0],
    [interval |-> 2000, maxInInterval |-> 2, minDifference |-> 0],
    [interval |-> 2000, maxInInterval |-> 2, minDifference |-> 1000],
    [interval |-> 2000, maxInInterval |-> 1, minDifference |-> 3000],
    [interval |-> 3000, maxInInterval |-> 3, minDifference |-> 2000] }

\* Intervals that are and are not whole seconds.
TtlConfigurations ==
  { [interval |-> i, maxInInterval |-> 1, minDifference |-> 0] : i \in {1, 1500, 2000, 2500} }

Counts == IF version = "current" THEN {1} ELSE 1..MaxCount

(***************************************************************************)
(* RateLimiter.calculateInfo: the verdict for a list of timestamps whose   *)
(* last item is taken to be the current action.                            *)
(***************************************************************************)
\* The guard `this.minDifference > 0` exists in src/src/index.ts only.
minDifferenceChecked == IF version = "current" THEN minDifference > 0 ELSE TRUE

\* A verdict that lets one more attempt through than the limit.
blockedDueToCountLax(timestamps) == Len(timestamps) > maxInInterval + 1

\* const blockedDueToCount = numTimestamps > this.maxInInterval
blockedDueToCount(timestamps) == Len(timestamps) > maxInInterval

\* A min-difference test that also blocks an attempt exactly minDifference late.
blockedDueToMinDifferenceInclusive(timestamps) ==
  /\ Len(timestamps) >= 2
  /\ timestamps[Len(timestamps)] - timestamps[Len(timestamps) - 1] <= minDifference

\* previousTimestamp != null && [this.minDifference > 0 &&]
\*   currentTimestamp - previousTimestamp < this.minDifference
blockedDueToMinDifference(timestamps) ==
  LET numTimestamps == Len(timestamps)
      currentTimestamp == timestamps[numTimestamps]
      previousTimestamp == timestamps[numTimestamps - 1]
  IN /\ numTimestamps >= 2
     /\ minDifferenceChecked
     /\ currentTimestamp - previousTimestamp < minDifference

\* The wait until the count alone would allow an action again.
microsecondsUntilUnblocked(timestamps) ==
  LET numTimestamps == Len(timestamps)
      currentTimestamp == timestamps[numTimestamps]
  IN IF numTimestamps >= maxInInterval
     THEN timestamps[Max(0, numTimestamps - maxInInterval) + 1]
            - currentTimestamp + interval
     ELSE 0

calculateInfo(timestamps) ==
  LET numTimestamps == Len(timestamps)
      microsecondsUntilAllowed ==
        Max(minDifference, microsecondsUntilUnblocked(timestamps))
  IN [blocked |-> blockedDueToCount(timestamps) \/ blockedDueToMinDifference(timestamps),
      blockedDueToCount |-> blockedDueToCount(timestamps),
      blockedDueToMinDifference |-> blockedDueToMinDifference(timestamps),
      millisecondsUntilAllowed |-> microsecondsToMilliseconds(microsecondsUntilAllowed),
      actionsRemaining |-> Max(0, maxInInterval - numTimestamps)]

\* The info field of a call that has not resolved yet.
NoInfo ==
  [blocked |-> FALSE, blockedDueToCount |-> FALSE, blockedDueToMinDifference |-> FALSE,
   millisecondsUntilAllowed |-> 0, actionsRemaining |-> 0]

(***************************************************************************)
(* Identifiers: numbers [number |-> n] and strings [string |-> s].  As a   *)
(* property name and inside a template string an identifier stands as its  *)
(* string form.                                                            *)
(***************************************************************************)
Digit(d) == <<"0", "1", "2", "3", "4", "5", "6", "7", "8", "9">>[d + 1]

RECURSIVE Decimal(_)
Decimal(n) == IF n < 10 THEN Digit(n) ELSE Decimal(n \div 10) \o Digit(n % 10)

\* String(id)
String(id) == IF "number" \in DOMAIN id THEN Decimal(id.number) ELSE id.string

(***************************************************************************)
(* Maps with a varying domain (JavaScript objects, the Redis keyspace).    *)
(***************************************************************************)
\* A delete that leaves the entry in place.
DeleteNothing(f, k) == f

Delete(f, k) == [x \in DOMAIN f \ {k} |-> f[x]]

Put(f, k, v) == (k :> v) @@ f

(***************************************************************************)
(* InMemoryRateLimiter.getTimestamps                                       *)
(***************************************************************************)
\* A filter that keeps a timestamp exactly interval old.
storedTimestampsInclusive(id, currentTimestamp) ==
  LET clearBefore == currentTimestamp - interval
      existing == IF String(id) \in DOMAIN storage THEN storage[String(id)] ELSE <<>>
  IN SelectSeq(existing, LAMBDA t : t >= clearBefore)

\* A filter whose window is half as long.
storedTimestampsHalfWindow(id, currentTimestamp) ==
  LET clearBefore == currentTimestamp - interval \div 2
      existing == IF String(id) \in DOMAIN storage THEN storage[String(id)] ELSE <<>>
  IN SelectSeq(existing, LAMBDA t : t > clearBefore)

\* (this.storage[id] || []).filter((t) => t > clearBefore)
storedTimestamps(id, currentTimestamp) ==
  LET clearBefore == currentTimestamp - interval
      existing == IF String(id) \in DOMAIN storage THEN storage[String(id)] ELSE <<>>
  IN SelectSeq(existing, LAMBDA t : t > clearBefore)

\* A push that is skipped once the list is full.
pushNewUnlessFull(list, currentTimestamp, addNewTimestamps) ==
  IF Len(list) >= maxInInterval THEN list
  ELSE list \o [i \in 1..addNewTimestamps |-> currentTimestamp + (i - 1)]

\* A push that drops a timestamp equal to the last one stored.
pushNewDistinct(list, currentTimestamp, addNewTimestamps) ==
  IF list # <<>> /\ list[Len(list)] = currentTimestamp THEN list
  ELSE list \o [i \in 1..addNewTimestamps |-> currentTimestamp + (i - 1)]

\* A push loop that writes currentTimestamp every time.
pushNewSame(list, currentTimestamp, addNewTimestamps) ==
  list \o [i \in 1..addNewTimestamps |-> currentTimestamp]

\* The push loop: currentTimestamp + i for i = 0 .. addNewTimestamps - 1
\* (a single push of currentTimestamp in src/src/index.ts).
pushNew(list, currentTimestamp, addNewTimestamps) ==
  list \o [i \in 1..addNewTimestamps |-> currentTimestamp + (i - 1)]

\* The list getTimestamps stores and returns.
memGetTimestamps(id, addNewTimestamps, currentTimestamp) ==
  pushNew(storedTimestamps(id, currentTimestamp), currentTimestamp, addNewTimestamps)

\* The timer map after the call: every push cancels the old timer and sets a new one.
memSetTimeout(id, addNewTimestamps, currentTimestamp) ==
  IF addNewTimestamps > 0
  THEN Put(ttls, String(id), currentTimestamp
                       + MicrosPerMilli * microsecondsToMilliseconds(interval))
  ELSE ttls

\* A clearTimeout that leaves the timer pending.
clearTimeoutLater(pending, id) == pending

\* clearTimeout(this.ttls[id]): the timer the map holds for id leaves the
\* event loop.
clearTimeout(pending, id) ==
  IF String(id) \in DOMAIN ttls
  THEN pending \ {[id |-> String(id), deadline |-> ttls[String(id)]]}
  ELSE pending

\* setTimeout(callback, delay): a timer for id joins the event loop.
setTimeout(pending, id, deadline) ==
  pending \cup {[id |-> String(id), deadline |-> deadline]}

\* The pending timers after the call: every push cancels the timer the map
\* holds and schedules a new one.
memTimers(id, addNewTimestamps, currentTimestamp) ==
  IF addNewTimestamps > 0
  THEN setTimeout(clearTimeout(timers, id), id,
                  currentTimestamp + MicrosPerMilli * microsecondsToMilliseconds(interval))
  ELSE timers

\* The pending timers of id that are due.
dueTimers(id) == {tm \in timers : tm.id = String(id) /\ now >= tm.deadline}

\* What the limiter holds for id: its array and its timer, if any.
MemEntry(st, tm, id) ==
  [ts |-> IF String(id) \in DOMAIN st THEN {st[String(id)]} ELSE {},
   ttl |-> IF String(id) \in DOMAIN tm THEN {tm[String(id)]} ELSE {}]

(***************************************************************************)
(* The Redis commands the limiter issues, as the server executes them.     *)
(***************************************************************************)
\* `${this.namespace}${id}`
makeKey(namespace, id) == namespace \o String(id)

\* The expiry instant of key k has passed.
zDue(k) == k \in DOMAIN expireAt /\ now >= expireAt[k]

\* A key whose expiry instant has passed is gone for every command.
zLive(k) == k \in DOMAIN zsets /\ ~zDue(k)

zMembers(k) == IF zLive(k) THEN zsets[k] ELSE {}

zExpiry(k) == IF zLive(k) /\ k \in DOMAIN expireAt THEN {expireAt[k]} ELSE {}

\* A removal that spares the score equal to max.
zRemRangeByScoreBelow(members, min, max) ==
  {e \in members : ~(e.score >= min /\ e.score < max)}

\* ZREMRANGEBYSCORE key min max: both ends inclusive.
zRemRangeByScore(members, min, max) ==
  {e \in members : ~(e.score >= min /\ e.score <= max)}

\* A ZADD whose member is the score itself: equal timestamps share one entry.
zAddScoreAsMember(members, score, member) ==
  {e \in members : e.member # score} \cup {[member |-> score, score |-> score]}

\* ZADD key score member: a member already present only has its score replaced.
zAdd(members, score, member) ==
  {e \in members : e.member # member} \cup {[member |-> member, score |-> score]}

RECURSIVE zAddMany(_, _, _, _)
\* for (i = 0; i < addNewTimestamps; i++) batch.zadd(key, now + i, uuid())
zAddMany(members, t, uuid, addNewTimestamps) ==
  IF addNewTimestamps = 0 THEN members
  ELSE zAddMany(zAdd(members, t, uuid), t + 1, uuid + 1, addNewTimestamps - 1)

zBefore(a, b) == a.score < b.score \/ (a.score = b.score /\ a.member < b.member)

RECURSIVE zRangeWithScores(_)
\* ZRANGE key 0 -1 WITHSCORES: member, score, member, score, ... by ascending score.
zRangeWithScores(members) ==
  IF members = {} THEN <<>>
  ELSE LET first == CHOOSE e \in members : \A o \in members \ {e} : zBefore(e, o)
       IN <<first.member, first.score>> \o zRangeWithScores(members \ {first})

\* valuesAndScores.filter((e, i) => i % 2).map(Number): the odd (0-based) items.
parseZRangeResult(result) == [i \in 1..(Len(result) \div 2) |-> result[2 * i]]

\* BaseRedisRateLimiter.ttl, in seconds.
redisTtl == microsecondsToSeconds(interval)

\* The position of the ZRANGE reply among the replies of the batch (0-based).
zRangeIndex(addNewTimestamps) == 1 + addNewTimestamps

\* The MULTI batch of getTimestamps, executed as one step by the server at `now`.
\* Yields the member set and expiry the key has afterwards and the batch's replies.
execBatch(k, t, uuid, addNewTimestamps) ==
  LET clearBefore == t - interval
      kept == zRemRangeByScore(zMembers(k), 0, clearBefore)
      keptExpiry == IF kept = {} THEN {} ELSE zExpiry(k)
      added == zAddMany(kept, t, uuid, addNewTimestamps)
      expiry == IF added = {} THEN {} ELSE {now + redisTtl * MicrosPerMilli * MicrosPerMilli}
      results == <<Cardinality(zMembers(k)) - Cardinality(kept)>>
                   \o [i \in 1..addNewTimestamps |-> 1]
                   \o <<zRangeWithScores(added)>>
                   \o <<IF added = {} THEN 0 ELSE 1>>
  IN [members |-> added, expiry |-> expiry, keptExpiry |-> keptExpiry, results |-> results]

\* What the server holds for key k: its member set and its expiry, if any.
RedisEntry(k) == [ts |-> IF zLive(k) THEN {zsets[k]} ELSE {}, ttl |-> zExpiry(k)]

(***************************************************************************)
(* Calls.  Each call is recorded when issued and updated as it proceeds:   *)
(*   phase "sent"     : the Redis batch is on its way to the server        *)
(*   phase "executed" : getTimestamps has its list, the caller still awaits*)
(*   phase "returned" : the promise has resolved with info                 *)
(*   phase "rejected" : the promise has rejected                           *)
(*   phase "hung"     : an exception left the promise unsettled for good   *)
(* reply is what became of the call's Redis batch: "ok" or the failure.    *)
(* seq numbers the steps that touched the store, in the order they took    *)
(* effect; pre and post are the stored entry before and after the step.    *)
(* The deletion of an entry by its timer or by the server's expiry is      *)
(* recorded in the same list, as op "expire".                              *)
(***************************************************************************)
InFlightPhases == {"sent", "executed"}

InFlight == {i \in DOMAIN calls : calls[i].phase \in InFlightPhases}

NewCall(op, id, k, p, count, t, cur) ==
  [op |-> op, id |-> id, key |-> k, proc |-> p, count |-> count, now |-> t, cur |-> cur,
   phase |-> "sent", reply |-> "ok", uuid |-> nextUuid, seq |-> 0, at |-> 0, ts |-> <<>>, list |-> <<>>, info |-> NoInfo,
   pre |-> [ts |-> {}, ttl |-> {}], post |-> [ts |-> {}, ttl |-> {}]]

Executed == {i \in DOMAIN calls : calls[i].phase # "sent"}

\* wouldLimitWithInfo of src/src/index.ts reads the clock after its await.
readsClockLate(c) == c.op = "would" /\ version = "current"

\* Calls whose list is there and whose continuation does not read the clock.
Resolving == {i \in DOMAIN calls : calls[i].phase = "executed" /\ ~readsClockLate(calls[i])}

MaxCalls == IF backend = "memory" THEN MaxMemCalls ELSE MaxRedisCalls

Issued == {i \in DOMAIN calls : calls[i].op # "expire"}

CanIssue == Cardinality(Issued) < MaxCalls /\ Cardinality(InFlight) < MaxInFlight

\* Process 1 is the limiter under observation; process 2 is another process
\* sharing its Redis key.  A process awaits each Redis call before its next.
CanIssueFrom(p) ==
  /\ \A i \in InFlight : calls[i].proc # p
  /\ p = 1 \/ Cardinality({i \in DOMAIN calls : calls[i].proc = p}) < MaxRemoteCalls

\* The server knows keys only: the record of a key's expiry names no identifier.
NoId == [string |-> ""]

\* The record of an entry deleted by its timer or by the server's expiry.
Expired(id, k, pre) ==
  [NewCall("expire", id, k, 0, 0, now, 0) EXCEPT
     !.phase = "returned", !.seq = Cardinality(Executed) + 1, !.at = now, !.pre = pre]

\* wouldLimitWithInfo of part_008 reads the clock before getTimestamps.
EarlyCurrent(op, p, t) == IF op = "would" /\ version = "bulk" THEN t ELSE 0

(***************************************************************************)
(* The continuation after `await this.getTimestamps(...)`.                 *)
(***************************************************************************)
\* The list handed to calculateInfo.
infoList(c, currentTimestamp) ==
  IF c.op = "would" THEN Append(c.ts, currentTimestamp) ELSE c.ts

\* src/src/index.ts reads the clock here, part_008 has read it before.
lateCurrent(c) == IF readsClockLate(c) THEN getCurrentMicroseconds(c.proc) ELSE c.cur

\* The call as it stands once its promise has resolved.
resolved(c) ==
  LET cur == lateCurrent(c)
      list == infoList(c, cur)
  IN [c EXCEPT !.phase = "returned", !.cur = cur, !.list = list,
               !.info = calculateInfo(list)]

(***************************************************************************)
(* Initial state: a limiter just constructed from a valid configuration.   *)
(***************************************************************************)
\* An option left out of the object is undefined; `undefined > 0` is false.
Passed(o, name) == name \in DOMAIN o

\* { interval, maxInInterval, minDifference = 0 }
minDifferenceOrDefault(o) == IF Passed(o, "minDifference") THEN o.minDifference ELSE 0

\* A constructor that accepts a zero interval.
constructorThrowsBelowZero(o) ==
  \/ ~(Passed(o, "interval") /\ o.interval >= 0)
  \/ ~(Passed(o, "maxInInterval") /\ o.maxInInterval > 0)
  \/ ~(minDifferenceOrDefault(o) >= 0)

\* One of the three asserts fails.
constructorThrows(o) ==
  \/ ~(Passed(o, "interval") /\ o.interval > 0)
  \/ ~(Passed(o, "maxInInterval") /\ o.maxInInterval > 0)
  \/ ~(minDifferenceOrDefault(o) >= 0)

ConstructedFrom(configurations) ==
  /\ version \in {"current", "bulk"}
  /\ backend \in {"memory", "redis"}
  /\ options \in configurations
  /\ ~constructorThrows(options)
  /\ limiter = "constructed"
  /\ interval = millisecondsToMicroseconds(options.interval)
  /\ maxInInterval = options.maxInInterval
  /\ minDifference = millisecondsToMicroseconds(minDifferenceOrDefault(options))
  /\ now = 0
  /\ advances = 0
  /\ storage = <<>>
  /\ ttls = <<>>
  /\ timers = {}
  /\ zsets = <<>>
  /\ expireAt = <<>>
  /\ nextUuid = 1
  /\ calls = <<>>

Constructed == ConstructedFrom(Configurations)

\* One identifier; the Redis processes run limiters of one namespace.
Init ==
  /\ Constructed
  /\ ids = {[number |-> 1]}
  /\ namespaces = [p \in RedisProcs |-> "n"]

\* Sets of two identifiers: a number and the string of its digits; two numbers
\* of which one continues the digits of the other.
IdSets ==
  { {[number |-> 1], [string |-> "1"]},
    {[number |-> 1], [number |-> 11]} }

\* Two identifiers; the Redis processes run limiters of different namespaces
\* on one server.
InitShared ==
  /\ Constructed
  /\ version = "current"
  /\ maxInInterval = 1
  /\ minDifference = 0
  /\ ids \in IdSets
  /\ namespaces = [p \in RedisProcs |-> IF p = 1 THEN "n" ELSE "n1"]

(***************************************************************************)
(* Construction from any options object.                                   *)
(***************************************************************************)
OptionNames == {"interval", "maxInInterval", "minDifference"}

OptionValues == {-1, 0, 1, 2000}

\* Objects with any of the three options left out.
OptionObjects == UNION {[D -> OptionValues] : D \in SUBSET OptionNames}

\* The constructor is about to run on some options object; the fields of the
\* limiter are not assigned yet (0 stands for a field without a value).
InitConstruct ==
  /\ version \in {"current", "bulk"}
  /\ backend \in {"memory", "redis"}
  /\ options \in OptionObjects
  /\ limiter = "none"
  /\ interval = 0
  /\ maxInInterval = 0
  /\ minDifference = 0
  /\ now = 0
  /\ advances = 0
  /\ storage = <<>>
  /\ ttls = <<>>
  /\ timers = {}
  /\ zsets = <<>>
  /\ expireAt = <<>>
  /\ nextUuid = 1
  /\ calls = <<>>
  /\ ids = {[number |-> 1]}
  /\ namespaces = [p \in RedisProcs |-> "n"]

\* new RateLimiter(options): the asserts, then the assignments.
Construct ==
  /\ limiter = "none"
  /\ IF constructorThrows(options)
     THEN /\ limiter' = "threw"
          /\ UNCHANGED <<interval, maxInInterval, minDifference>>
     ELSE /\ limiter' = "constructed"
          /\ interval' = millisecondsToMicroseconds(options.interval)
          /\ maxInInterval' = options.maxInInterval
          /\ minDifference' = millisecondsToMicroseconds(minDifferenceOrDefault(options))
  /\ UNCHANGED <<version, backend, ids, namespaces, options, now, advances, storage, ttls, timers,
                 zsets, expireAt, nextUuid, calls>>

NextConstruct == Construct

SpecConstruct == InitConstruct /\ [][NextConstruct]_vars

(***************************************************************************)
(* The clock.                                                              *)
(***************************************************************************)
\* A second passes.  The continuation of a call that will not read the clock
\* again computes from its own list only, so it is run before the clock
\* moves: its place among the later steps cannot change what it returns.
Tick ==
  /\ advances < MaxAdvances
  /\ Resolving = {}
  /\ now' = now + MicrosPerMilli * MicrosPerMilli
  /\ advances' = advances + 1
  /\ UNCHANGED <<config, storage, ttls, timers, zsets, expireAt, nextUuid, calls>>

(***************************************************************************)
(* In-memory backend.  getTimestamps runs to completion inside the call;   *)
(* the caller's continuation (calculateInfo) runs when the promise         *)
(* resolves.  The ts of a call is the array getTimestamps returned to it,  *)
(* which is the very array it stored.                                      *)
(***************************************************************************)
\* A getTimestamps that updates the stored array in place: a call still
\* awaiting holds that array.
earlierArraysShared(cs, id, list) ==
  [i \in DOMAIN cs |->
     IF /\ cs[i].phase = "executed"
        /\ cs[i].key = String(id)
        /\ String(id) \in DOMAIN storage
        /\ cs[i].ts = storage[String(id)]
     THEN [cs[i] EXCEPT !.ts = list]
     ELSE cs[i]]

\* The arrays held by earlier calls once getTimestamps has run for id: filter
\* builds a new array, the push goes to the new array, and the old one is
\* left as it was.
earlierArrays(cs, id, list) == cs

MemCall(op, id, addNewTimestamps) ==
  LET t == getCurrentMicroseconds(1)
      list == memGetTimestamps(id, addNewTimestamps, t)
      newStorage == Put(storage, String(id), list)
      newTtls == memSetTimeout(id, addNewTimestamps, t)
  IN /\ backend = "memory"
     /\ CanIssue
     /\ storage' = newStorage
     /\ ttls' = newTtls
     /\ timers' = memTimers(id, addNewTimestamps, t)
     /\ calls' = Append(earlierArrays(calls, id, list),
          [NewCall(op, id, String(id), 1, addNewTimestamps, t, EarlyCurrent(op, 1, t)) EXCEPT
             !.phase = "executed", !.seq = Cardinality(Executed) + 1, !.at = now,
             !.ts = list,
             !.pre = MemEntry(storage, ttls, id),
             !.post = MemEntry(newStorage, newTtls, id)])
     /\ UNCHANGED <<config, now, advances, zsets, expireAt, nextUuid>>

\* limitWithInfo(id, count) up to its await (limit(id, count) returns info.blocked)
MemLimit(id, count) == count \in Counts /\ MemCall("limit", id, count)

\* wouldLimitWithInfo(id) up to its await
MemWouldLimit(id) == MemCall("would", id, 0)

\* InMemoryRateLimiter.clear
MemClear(id) ==
  /\ backend = "memory"
  /\ CanIssue
  /\ storage' = Delete(storage, String(id))
  /\ ttls' = Delete(ttls, String(id))
  /\ timers' = clearTimeout(timers, id)
  /\ calls' = Append(calls,
       [NewCall("clear", id, String(id), 1, 0, getCurrentMicroseconds(1), 0) EXCEPT
          !.phase = "returned", !.seq = Cardinality(Executed) + 1, !.at = now,
          !.pre = MemEntry(storage, ttls, id),
          !.post = MemEntry(Delete(storage, String(id)), Delete(ttls, String(id)), id)])
  /\ UNCHANGED <<config, now, advances, zsets, expireAt, nextUuid>>

\* The setTimeout callback of getTimestamps; timers run only once no
\* continuation is pending.
TimerFire(id) ==
  /\ backend = "memory"
  /\ InFlight = {}
  /\ \E tm \in dueTimers(id) : timers' = timers \ {tm}
  /\ storage' = Delete(storage, String(id))
  /\ ttls' = Delete(ttls, String(id))
  /\ calls' = Append(calls, Expired(id, String(id), MemEntry(storage, ttls, id)))
  /\ UNCHANGED <<config, now, advances, zsets, expireAt, nextUuid>>

(***************************************************************************)
(* Redis backend.  A call builds its batch from its own clock reading and  *)
(* sends it; the server executes the batch as one step; the reply resolves *)
(* the promise.  One process's batches execute and resolve in the order    *)
(* sent; batches of different processes interleave freely.  A reply whose  *)
(* continuation reads nothing shared resolves its promise in the step that *)
(* executes the batch: when that continuation runs cannot change its       *)
(* result.                                                                 *)
(***************************************************************************)
RedisCall(op, p, id, addNewTimestamps) ==
  LET t == getCurrentMicroseconds(p)
  IN /\ backend = "redis"
     /\ CanIssue
     /\ CanIssueFrom(p)
     /\ Resolving = {}
     /\ calls' = Append(calls, NewCall(op, id, makeKey(namespaces[p], id), p, addNewTimestamps, t,
                                        EarlyCurrent(op, p, t)))
     /\ nextUuid' = nextUuid + addNewTimestamps
     /\ UNCHANGED <<config, now, advances, storage, ttls, timers, zsets, expireAt>>

RedisLimit(p, id, count) == count \in Counts /\ RedisCall("limit", p, id, count)

RedisWouldLimit(p, id) == RedisCall("would", p, id, 0)

RedisExec(i) ==
  /\ backend = "redis"
  /\ i \in DOMAIN calls
  /\ calls[i].phase = "sent"
  /\ Resolving = {}
  /\ ~zDue(calls[i].key)
  /\ \A j \in 1..(i - 1) : calls[j].proc = calls[i].proc => calls[j].phase # "sent"
  /\ LET c == calls[i]
         k == c.key
         b == execBatch(k, c.now, c.uuid, c.count)
         list == parseZRangeResult(b.results[zRangeIndex(c.count) + 1])
         done == [c EXCEPT !.phase = "executed", !.seq = Cardinality(Executed) + 1,
                           !.at = now, !.ts = list,
                           !.pre = RedisEntry(k),
                           !.post = [ts |-> IF b.members = {} THEN {} ELSE {b.members},
                                     ttl |-> b.expiry]]
     IN /\ zsets' = IF b.members = {} THEN Delete(zsets, k) ELSE Put(zsets, k, b.members)
        /\ expireAt' = IF b.expiry = {} THEN Delete(expireAt, k)
                       ELSE Put(expireAt, k, CHOOSE e \in b.expiry : TRUE)
        /\ calls' = [calls EXCEPT ![i] = IF readsClockLate(c) THEN done ELSE resolved(done)]
  /\ UNCHANGED <<config, now, advances, storage, ttls, timers, nextUuid>>

\* BaseRedisRateLimiter.clear: DEL key
RedisClear(p, id) ==
  /\ backend = "redis"
  /\ CanIssue
  /\ Resolving = {}
  /\ ~zDue(makeKey(namespaces[p], id))
  /\ zsets' = Delete(zsets, makeKey(namespaces[p], id))
  /\ expireAt' = Delete(expireAt, makeKey(namespaces[p], id))
  /\ calls' = Append(calls,
       [NewCall("clear", id, makeKey(namespaces[p], id), p, 0, getCurrentMicroseconds(p), 0) EXCEPT
          !.phase = "returned", !.seq = Cardinality(Executed) + 1, !.at = now,
          !.pre = RedisEntry(makeKey(namespaces[p], id))])
  /\ UNCHANGED <<config, now, advances, storage, ttls, timers, nextUuid>>

\* The server deletes a key whose expiry instant has passed, before it
\* executes any later command on that key.
KeyExpire(k) ==
  /\ backend = "redis"
  /\ zDue(k)
  /\ zsets' = Delete(zsets, k)
  /\ expireAt' = Delete(expireAt, k)
  /\ calls' = Append(calls, Expired(NoId, k, [ts |-> {zsets[k]}, ttl |-> {expireAt[k]}]))
  /\ UNCHANGED <<config, now, advances, storage, ttls, timers, nextUuid>>

\* The promise of call i resolves.
Return(i) ==
  /\ i \in DOMAIN calls
  /\ calls[i].phase = "executed"
  /\ \A j \in 1..(i - 1) : calls[j].proc = calls[i].proc => calls[j].phase \notin InFlightPhases
  /\ calls' = [calls EXCEPT ![i] = resolved(calls[i])]
  /\ UNCHANGED <<config, now, advances, storage, ttls, timers, zsets, expireAt, nextUuid>>

Next ==
  \/ Tick
  \/ \E id \in ids, count \in 1..MaxCount : MemLimit(id, count)
  \/ \E id \in ids : MemWouldLimit(id)
  \/ \E id \in ids : MemClear(id)
  \/ \E id \in ids : TimerFire(id)
  \/ \E p \in RedisProcs, id \in ids, count \in 1..MaxCount : RedisLimit(p, id, count)
  \/ \E p \in RedisProcs, id \in ids : RedisWouldLimit(p, id)
  \/ \E id \in ids : RedisClear(1, id)
  \/ \E i \in DOMAIN calls : RedisExec(i)
  \/ \E k \in DOMAIN expireAt : KeyExpire(k)
  \/ \E i \in DOMAIN calls : Return(i)

Spec == Init /\ [][Next]_vars

\* Redis limiters whose intervals need not be whole seconds.
InitTtl ==
  /\ ConstructedFrom(TtlConfigurations)
  /\ backend = "redis"
  /\ ids = {[number |-> 1]}
  /\ namespaces = [p \in RedisProcs |-> "n"]

NextRedis ==
  \/ Tick
  \/ \E p \in RedisProcs, id \in ids, count \in 1..MaxCount : RedisLimit(p, id, count)
  \/ \E p \in RedisProcs, id \in ids : RedisWouldLimit(p, id)
  \/ \E id \in ids : RedisClear(1, id)
  \/ \E i \in DOMAIN calls : RedisExec(i)
  \/ \E k \in DOMAIN expireAt : KeyExpire(k)
  \/ \E i \in DOMAIN calls : Return(i)

SpecTtl == InitTtl /\ [][NextRedis]_vars

(***************************************************************************)
(* Redis batches that fail.  JavaScript values are records with a kind:    *)
(* undefined, null, an Error object, an array of values, and the exception *)
(* thrown by reading a property of undefined or null or by calling a       *)
(* method the value does not have.                                         *)
(***************************************************************************)
Undefined == [kind |-> "undefined"]

Null == [kind |-> "null"]

ErrorObject == [kind |-> "error"]

Thrown == [kind |-> "thrown"]

Array(items) == [kind |-> "array", items |-> items]

\* value[i]
Index(value, i) ==
  CASE value.kind = "thrown" -> Thrown
    [] value.kind \in {"undefined", "null"} -> Thrown
    [] value.kind = "array" /\ i < Len(value.items) -> value.items[i + 1]
    [] OTHER -> Undefined

\* Array.isArray(value)
IsArray(value) == value.kind = "array"

\* value.filter((e, i) => i % 2): the items at odd indexes; a TypeError when
\* value is not an array.
FilterOdd(value) ==
  IF IsArray(value)
  THEN Array([i \in 1..(Len(value.items) \div 2) |-> value.items[2 * i]])
  ELSE Thrown

\* How a batch fails: exec yields an error; exec of ioredis yields null; the
\* server answers every command of the batch with an error, which ioredis
\* hands over as [error, undefined] pairs and node-redis as Error objects.
FailureModes == {"rejects", "null", "errorsIoredis", "errorsNodeRedis"}

\* The client library in use when a batch fails in this way.
clientOf(mode) == IF mode = "errorsNodeRedis" THEN "node-redis" ELSE "ioredis"

\* What exec hands back for a failed batch of so many commands.
failedExec(mode, commands) ==
  CASE mode = "rejects" -> [err |-> TRUE, result |-> Undefined]
    [] mode = "null" -> [err |-> FALSE, result |-> Null]
    [] mode = "errorsIoredis" ->
         [err |-> FALSE,
          result |-> Array([c \in 1..commands |-> Array(<<ErrorObject, Undefined>>)])]
    [] mode = "errorsNodeRedis" ->
         [err |-> FALSE, result |-> Array([c \in 1..commands |-> ErrorObject])]

\* IORedisMultiWrapper.exec: (await this.multi.exec()) ?? []
execOrEmpty(client, result) ==
  IF client = "ioredis" /\ result.kind \in {"undefined", "null"} THEN Array(<<>>) ELSE result

\* IORedisClientWrapper.parseZRangeResult / NodeRedisClientWrapper.parseZRangeResult
wrapperParseZRangeResult(client, result) ==
  IF client = "ioredis" THEN FilterOdd(Index(result, 1))
  ELSE IF IsArray(result) THEN result ELSE Thrown

\* part_008 getZRangeResult: Array.isArray(zRangeOutput[1]) tells ioredis apart.
getZRangeResult(zRangeOutput) ==
  LET second == Index(zRangeOutput, 1)
  IN IF second.kind = "thrown" THEN Thrown
     ELSE IF ~IsArray(second) THEN zRangeOutput ELSE second

\* part_008 extractTimestampsFromZRangeResult (before .map(Number))
extractTimestampsFromZRangeResult(zRangeResult) ==
  IF zRangeResult.kind = "thrown" THEN Thrown ELSE FilterOdd(zRangeResult)

\* How the promise of getTimestamps ends for a failed batch.  src/src/index.ts
\* awaits exec inside an async function: whatever is thrown rejects the
\* promise.  part_008 parses the reply inside the exec callback: an exception
\* thrown there reaches neither resolve nor reject.
failedGetTimestamps(mode, addNewTimestamps) ==
  LET reply == failedExec(mode, addNewTimestamps + 3)
  IN IF reply.err THEN "rejected"
     ELSE IF version = "current"
     THEN LET results == execOrEmpty(clientOf(mode), reply.result)
              list == wrapperParseZRangeResult(clientOf(mode),
                                               Index(results, zRangeIndex(addNewTimestamps)))
          IN IF list.kind = "thrown" THEN "rejected" ELSE "returned"
     ELSE LET zRangeOutput == Index(reply.result, zRangeIndex(addNewTimestamps))
              list == extractTimestampsFromZRangeResult(getZRangeResult(zRangeOutput))
          IN IF list.kind = "thrown" THEN "hung" ELSE "returned"

\* getTimestamps that never rejects once exec has called back.
failedGetTimestampsLenient(mode, addNewTimestamps) ==
  IF mode = "rejects" THEN "rejected" ELSE "returned"

\* calculateInfo of the one-item list [NaN] that part_008 extracts from the
\* pair [error, undefined]: every comparison with NaN is false, so no flag is
\* set.  (millisecondsUntilAllowed is NaN when maxInInterval = 1; 0 stands for it.)
NaNInfo == [NoInfo EXCEPT !.actionsRemaining = Max(0, maxInInterval - 1)]

\* The calls whose batch failed.
Failed == {i \in DOMAIN calls : calls[i].reply # "ok"}

\* The batch of call i fails.  The server's data stays as it was.
RedisFail(i, mode) ==
  /\ backend = "redis"
  /\ Cardinality(Failed) < MaxFailures
  /\ i \in DOMAIN calls
  /\ calls[i].phase = "sent"
  /\ mode \in FailureModes
  /\ Resolving = {}
  /\ \A j \in 1..(i - 1) : calls[j].proc = calls[i].proc => calls[j].phase # "sent"
  /\ calls' = [calls EXCEPT ![i] =
                 [@ EXCEPT !.reply = mode,
                           !.phase = failedGetTimestamps(mode, calls[i].count),
                           !.at = now,
                           !.info = IF failedGetTimestamps(mode, calls[i].count) = "returned"
                                    THEN NaNInfo ELSE NoInfo]]
  /\ UNCHANGED <<config, now, advances, storage, ttls, timers, zsets, expireAt, nextUuid>>

\* The Redis limiter with a store that can fail.
InitFailing ==
  /\ Init
  /\ backend = "redis"
  /\ maxInInterval = 1
  /\ minDifference = 0

NextFailing ==
  \/ Tick
  \/ \E p \in RedisProcs, id \in ids, count \in 1..MaxCount : RedisLimit(p, id, count)
  \/ \E p \in RedisProcs, id \in ids : RedisWouldLimit(p, id)
  \/ \E id \in ids : RedisClear(1, id)
  \/ \E i \in DOMAIN calls : RedisExec(i)
  \/ \E i \in DOMAIN calls, mode \in FailureModes : RedisFail(i, mode)
  \/ \E k \in DOMAIN expireAt : KeyExpire(k)
  \/ \E i \in DOMAIN calls : Return(i)

SpecFailing == InitFailing /\ [][NextFailing]_vars

(***************************************************************************)
(* The function-style limiter of src/index.js: RateLimiter(options)        *)
(* returns a function limiter(id) that answers with timeLeft (and          *)
(* remaining).  Its calls are recorded with op "legacy": list is the set   *)
(* of earlier timestamps the call found, info.millisecondsUntilAllowed its *)
(* timeLeft, info.actionsRemaining its remaining, info.blocked whether it  *)
(* took the branch that computes a wait.                                   *)
(***************************************************************************)
\* Options of the function-style limiter (milliseconds); minDifference 0
\* stands for the option left out.
LegacyConfigurations ==
  { [interval |-> 2, maxInInterval |-> m, minDifference |-> d] : m \in {1, 2}, d \in {0, 1} }

\* The clock moves in steps of half a millisecond.
LegacyStep == 500

\* options.minDifference ? 1000 * options.minDifference : null; in the
\* comparisons and sums below null counts as 0.
legacyMinDifference(o) == IF o.minDifference # 0 THEN 1000 * o.minDifference ELSE 0

InitLegacy ==
  /\ version = "legacy"
  /\ backend \in {"memory", "redis"}
  /\ options \in LegacyConfigurations
  /\ limiter = "constructed"
  /\ interval = options.interval * 1000
  /\ maxInInterval = options.maxInInterval
  /\ minDifference = legacyMinDifference(options)
  /\ now = 0
  /\ advances = 0
  /\ storage = <<>>
  /\ ttls = <<>>
  /\ timers = {}
  /\ zsets = <<>>
  /\ expireAt = <<>>
  /\ nextUuid = 1
  /\ calls = <<>>
  /\ ids = {[number |-> 1]}
  /\ namespaces = [p \in RedisProcs |-> "n"]

LegacyTick ==
  /\ advances < MaxLegacyAdvances
  /\ now' = now + LegacyStep
  /\ advances' = advances + 1
  /\ UNCHANGED <<config, storage, ttls, timers, zsets, expireAt, nextUuid, calls>>

\* Math.floor(x / d) for d > 0
Floor(x, d) == x \div d

\* Math.floor(result / 1000)
legacyMilliseconds(microseconds) == Floor(microseconds, 1000)

\* The verdict computed from userSet, the earlier timestamps still in the
\* window (src/index.js lines 72-88 and 114-130).  With an empty userSet
\* timeSinceLastRequest is NaN and compares false.
legacyVerdict(userSet, t) ==
  LET n == Len(userSet)
      tooManyInInterval == n >= maxInInterval
      timeSinceLastRequest == IF n > 0 THEN t - userSet[n] ELSE 0
      tooSoon == n > 0 /\ timeSinceLastRequest < minDifference
      windowTerm == IF tooManyInInterval THEN userSet[n - maxInInterval + 1] - t + interval ELSE 0
      minDifferenceTerm ==
        IF minDifference = 0 THEN 0
        ELSE IF backend = "memory" THEN minDifference - timeSinceLastRequest
        ELSE minDifference
      result == IF tooManyInInterval \/ tooSoon
                THEN legacyMilliseconds(Max(windowTerm, minDifferenceTerm))
                ELSE 0
  IN [NoInfo EXCEPT !.blocked = tooManyInInterval \/ tooSoon,
                    !.blockedDueToCount = tooManyInInterval,
                    !.blockedDueToMinDifference = tooSoon,
                    !.millisecondsUntilAllowed = result,
                    !.actionsRemaining = maxInInterval - n - 1]

LegacyCalls == {i \in DOMAIN calls : calls[i].op = "legacy"}

\* The record of a call of the function-style limiter.
legacyCall(id, k, t, userSet, after) ==
  [NewCall("legacy", id, k, 1, 1, t, 0) EXCEPT
     !.phase = "returned", !.seq = Cardinality(Executed) + 1, !.at = now,
     !.list = userSet, !.ts = after, !.info = legacyVerdict(userSet, t)]

\* limiter(id), in-memory branch (src/index.js lines 94-144).
LegacyMemCall(id) ==
  LET t == getCurrentMicroseconds(1)
      clearBefore == t - interval
      existing == IF String(id) \in DOMAIN storage THEN storage[String(id)] ELSE <<>>
      userSet == SelectSeq(existing, LAMBDA timestamp : timestamp > clearBefore)
  IN /\ version = "legacy"
     /\ backend = "memory"
     /\ Cardinality(LegacyCalls) < MaxLegacyCalls
     /\ storage' = Put(storage, String(id), Append(userSet, t))
     /\ ttls' = Put(ttls, String(id), t + interval)
     /\ timers' = setTimeout(clearTimeout(timers, id), id, t + interval)
     /\ calls' = Append(calls, legacyCall(id, String(id), t, userSet, Append(userSet, t)))
     /\ nextUuid' = nextUuid + 1
     /\ UNCHANGED <<config, now, advances, zsets, expireAt>>

\* limiter(id, cb), Redis branch (src/index.js lines 42-92): the batch
\* ZREMRANGEBYSCORE, ZRANGE, ZADD, EXPIRE and the callback of exec, for one
\* process whose batch runs at once.
LegacyRedisCall(id) ==
  LET t == getCurrentMicroseconds(1)
      k == makeKey(namespaces[1], id)
      clearBefore == t - interval
      kept == zRemRangeByScore(zMembers(k), 0, clearBefore)
      userSet == parseZRangeResult(zRangeWithScores(kept))
      added == zAdd(kept, t, nextUuid)
  IN /\ version = "legacy"
     /\ backend = "redis"
     /\ Cardinality(LegacyCalls) < MaxLegacyCalls
     /\ zsets' = Put(zsets, k, added)
     /\ expireAt' = Put(expireAt, k, now + microsecondsToSeconds(interval) * MicrosPerMilli * MicrosPerMilli)
     /\ calls' = Append(calls, legacyCall(id, k, t, userSet,
                                          parseZRangeResult(zRangeWithScores(added))))
     /\ nextUuid' = nextUuid + 1
     /\ UNCHANGED <<config, now, advances, storage, ttls, timers>>

NextLegacy ==
  \/ LegacyTick
  \/ \E id \in ids : LegacyMemCall(id)
  \/ \E id \in ids : LegacyRedisCall(id)
  \/ \E id \in ids : TimerFire(id)

SpecLegacy == InitLegacy /\ [][NextLegacy]_vars

SpecShared == InitShared /\ [][Next]_vars

(***************************************************************************)
(* The two backends side by side, as the shared examples of the test suite *)
(* run them: one process, one clock, the same configuration and the same   *)
(* calls, each awaited before the next.  Every call is made on the         *)
(* in-memory limiter and then on the Redis limiter; the two records are    *)
(* adjacent in calls, the in-memory one first.                             *)
(***************************************************************************)
InitPair ==
  /\ version \in {"current", "bulk"}
  /\ backend = "both"
  /\ options \in Configurations \cup TtlConfigurations
  /\ ~constructorThrows(options)
  /\ limiter = "constructed"
  /\ interval = millisecondsToMicroseconds(options.interval)
  /\ maxInInterval = options.maxInInterval
  /\ minDifference = millisecondsToMicroseconds(minDifferenceOrDefault(options))
  /\ now = 0
  /\ advances = 0
  /\ storage = <<>>
  /\ ttls = <<>>
  /\ timers = {}
  /\ zsets = <<>>
  /\ expireAt = <<>>
  /\ nextUuid = 1
  /\ calls = <<>>
  /\ ids = {[number |-> 1]}
  /\ namespaces = [p \in RedisProcs |-> "n"]

\* setTime of the test suite: the clock moves on by a second.
PairTick ==
  /\ advances < MaxPairAdvances
  /\ now' = now + MicrosPerMilli * MicrosPerMilli
  /\ advances' = advances + 1
  /\ UNCHANGED <<config, storage, ttls, timers, zsets, expireAt, nextUuid, calls>>

CanIssuePair == Cardinality(Issued) < 2 * MaxPairCalls

\* limitWithInfo or wouldLimitWithInfo, awaited, on the in-memory limiter and
\* then on the Redis limiter.
PairCall(op, id, addNewTimestamps) ==
  LET t == getCurrentMicroseconds(1)
      list == memGetTimestamps(id, addNewTimestamps, t)
      newStorage == Put(storage, String(id), list)
      newTtls == memSetTimeout(id, addNewTimestamps, t)
      inMemory == [NewCall(op, id, String(id), 1, addNewTimestamps, t, EarlyCurrent(op, 1, t)) EXCEPT
                     !.phase = "executed", !.seq = Cardinality(Executed) + 1, !.at = now,
                     !.ts = list,
                     !.pre = MemEntry(storage, ttls, id),
                     !.post = MemEntry(newStorage, newTtls, id)]
      k == makeKey(namespaces[1], id)
      b == execBatch(k, t, nextUuid, addNewTimestamps)
      redis == [NewCall(op, id, k, 1, addNewTimestamps, t, EarlyCurrent(op, 1, t)) EXCEPT
                  !.phase = "executed", !.seq = Cardinality(Executed) + 2, !.at = now,
                  !.ts = parseZRangeResult(b.results[zRangeIndex(addNewTimestamps) + 1]),
                  !.pre = RedisEntry(k),
                  !.post = [ts |-> IF b.members = {} THEN {} ELSE {b.members},
                            ttl |-> b.expiry]]
  IN /\ backend = "both"
     /\ CanIssuePair
     /\ ~zDue(k)
     /\ storage' = newStorage
     /\ ttls' = newTtls
     /\ timers' = memTimers(id, addNewTimestamps, t)
     /\ zsets' = IF b.members = {} THEN Delete(zsets, k) ELSE Put(zsets, k, b.members)
     /\ expireAt' = IF b.expiry = {} THEN Delete(expireAt, k)
                    ELSE Put(expireAt, k, CHOOSE e \in b.expiry : TRUE)
     /\ nextUuid' = nextUuid + addNewTimestamps
     /\ calls' = calls \o <<resolved(inMemory), resolved(redis)>>
     /\ UNCHANGED <<config, now, advances>>

PairLimit(id, count) == count \in Counts /\ PairCall("limit", id, count)

PairWouldLimit(id) == PairCall("would", id, 0)

\* clear(id), awaited, on both limiters.
PairClear(id) ==
  LET k == makeKey(namespaces[1], id)
      t == getCurrentMicroseconds(1)
  IN /\ backend = "both"
     /\ CanIssuePair
     /\ ~zDue(k)
     /\ storage' = Delete(storage, String(id))
     /\ ttls' = Delete(ttls, String(id))
     /\ timers' = clearTimeout(timers, id)
     /\ zsets' = Delete(zsets, k)
     /\ expireAt' = Delete(expireAt, k)
     /\ calls' = calls \o
          << [NewCall("clear", id, String(id), 1, 0, t, 0) EXCEPT
                !.phase = "returned", !.seq = Cardinality(Executed) + 1, !.at = now,
                !.pre = MemEntry(storage, ttls, id),
                !.post = MemEntry(Delete(storage, String(id)), Delete(ttls, String(id)), id)],
             [NewCall("clear", id, k, 1, 0, t, 0) EXCEPT
                !.phase = "returned", !.seq = Cardinality(Executed) + 2, !.at = now,
                !.pre = RedisEntry(k)] >>
     /\ UNCHANGED <<config, now, advances, nextUuid>>

\* The setTimeout callback of the in-memory limiter.
PairTimerFire(id) ==
  /\ backend = "both"
  /\ \E tm \in dueTimers(id) : timers' = timers \ {tm}
  /\ storage' = Delete(storage, String(id))
  /\ ttls' = Delete(ttls, String(id))
  /\ calls' = Append(calls, Expired(id, String(id), MemEntry(storage, ttls, id)))
  /\ UNCHANGED <<config, now, advances, zsets, expireAt, nextUuid>>

\* The server deletes the key of the Redis limiter once its expiry has passed.
PairKeyExpire(k) ==
  /\ backend = "both"
  /\ zDue(k)
  /\ zsets' = Delete(zsets, k)
  /\ expireAt' = Delete(expireAt, k)
  /\ calls' = Append(calls, Expired(NoId, k, [ts |-> {zsets[k]}, ttl |-> {expireAt[k]}]))
  /\ UNCHANGED <<config, now, advances, storage, ttls, timers, nextUuid>>

NextPair ==
  \/ PairTick
  \/ \E id \in ids, count \in 1..MaxCount : PairLimit(id, count)
  \/ \E id \in ids : PairWouldLimit(id)
  \/ \E id \in ids : PairClear(id)
  \/ \E id \in ids : PairTimerFire(id)
  \/ \E k \in DOMAIN expireAt : PairKeyExpire(k)

SpecPair == InitPair /\ [][NextPair]_vars

(***************************************************************************)
(* Histories read off the record of calls.                                 *)
(***************************************************************************)
\* limit and wouldLimit calls whose getTimestamps step has taken effect
Gets == {i \in DOMAIN calls : calls[i].op \in {"limit", "would"} /\ calls[i].phase # "sent"}

Resolved == {i \in Gets : calls[i].phase = "returned"}

Limits == {i \in Resolved : calls[i].op = "limit"}

Woulds == {i \in Resolved : calls[i].op = "would"}

Admitted == {i \in Limits : ~calls[i].info.blocked}

\* The steps on call j's id that took effect after step i and before step j.
Between(i, j) ==
  {r \in DOMAIN calls : /\ calls[r].key = calls[j].key
                        /\ calls[r].phase # "sent"
                        /\ calls[r].seq > calls[i].seq
                        /\ calls[r].seq < calls[j].seq}

\* The getTimestamps steps up to and including j with no clear between them and j.
SinceClear(j) ==
  {i \in Gets : /\ calls[i].key = calls[j].key
                /\ calls[i].seq <= calls[j].seq
                /\ \A r \in Between(i, j) : calls[r].op # "clear"}

\* The same, with neither a clear nor an expiry between them and j.
SinceReset(j) ==
  {i \in SinceClear(j) : \A r \in Between(i, j) : calls[r].op # "expire"}

\* The steps of S took effect in the order of their clock readings.
InOrder(S) == \A a, b \in S : calls[a].seq < calls[b].seq => calls[a].now <= calls[b].now

\* Each call of S took effect at the very instant its clock reading names:
\* one clock, and no delay between reading it and updating the store.
Sequential(S) == \A i \in S : calls[i].now = calls[i].at

\* The number of actions the calls of S stand for (the sum of their counts).
ActionsOf(S) == Cardinality({a \in S \X (1..MaxCount) : a[2] <= calls[a[1]].count})

\* The attempts of call i, one per timestamp it writes, and their timestamps.
Written(i) == {<<i, k>> : k \in 0..(calls[i].count - 1)}

Stamp(a) == calls[a[1]].now + a[2]

\* The attempts still retained after step j: written since the last reset and
\* not older than the window of any later step up to j.
Retained(j) ==
  {a \in UNION {Written(i) : i \in SinceReset(j)} :
     \A e \in SinceReset(j) :
       calls[e].seq > calls[a[1]].seq => Stamp(a) > calls[e].now - interval}

\* The timestamps of a stored entry, as a list.
StoredList(entry) ==
  IF entry.ts = {} THEN <<>>
  ELSE LET v == CHOOSE x \in entry.ts : TRUE
       IN IF backend = "memory" THEN v ELSE parseZRangeResult(zRangeWithScores(v))

Occurrences(list, v) == Cardinality({x \in DOMAIN list : list[x] = v})

\* What a limit call returns, or will return once its promise resolves.
Verdict(i) ==
  IF calls[i].phase = "returned" THEN calls[i].info ELSE calculateInfo(calls[i].ts)

(***************************************************************************)
(* The rolling-window guarantee.                                           *)
(***************************************************************************)
\* C1: for calls made one after the other at non-decreasing clock values
\* (each taking effect at the instant of its clock reading) with no clear in
\* between, the actions admitted in any window of length interval (the sum of
\* count over the limit calls that returned blocked = false, the window taken
\* as the trailing one (now - interval, now] of an admitted call) never exceed
\* maxInInterval; both backends.
C1_AdmittedWithinWindow ==
  \A j \in Admitted :
    Sequential(SinceClear(j)) /\ InOrder(SinceClear(j)) =>
      ActionsOf({i \in Admitted \cap SinceClear(j) :
                   calls[i].now > calls[j].now - interval}) <= maxInInterval

\* A window filled to the limit by two admitted calls at different instants,
\* and a further call in it that was blocked because of the count.
C1_Witness ==
  \E j \in Admitted :
    /\ Sequential(SinceClear(j)) /\ InOrder(SinceClear(j))
    /\ \E i \in Admitted \cap SinceClear(j) : calls[i].now < calls[j].now
    /\ ActionsOf({i \in Admitted \cap SinceClear(j) :
                    calls[i].now > calls[j].now - interval}) = maxInInterval
    /\ \E b \in Limits :
         /\ j \in SinceClear(b)
         /\ Sequential(SinceClear(b))
         /\ calls[b].info.blockedDueToCount
         /\ calls[b].now < calls[j].now + interval

(***************************************************************************)
(* Counting attempts.                                                      *)
(***************************************************************************)
\* C2: a limitWithInfo call returns blockedDueToCount = true if and only if
\* the attempts for its id whose timestamps are still retained when it takes
\* effect, blocked or not and its own included, number more than maxInInterval.
C2_BlockedDueToCountIffOverLimit ==
  \A j \in Limits :
    calls[j].info.blockedDueToCount <=> Cardinality(Retained(j)) > maxInInterval

\* Both outcomes side by side: a call blocked by the count although an earlier
\* blocked attempt is among those counted, and a later call that is let
\* through once earlier attempts have left the window.
C2_Witness ==
  /\ \E j \in Limits :
       /\ calls[j].info.blockedDueToCount
       /\ \E i \in Limits : i # j /\ calls[i].info.blocked /\ <<i, 0>> \in Retained(j)
  /\ \E j \in Limits :
       /\ ~calls[j].info.blockedDueToCount
       /\ \E i \in Limits \cap SinceReset(j) : <<i, 0>> \notin Retained(j)

\* C3: every limit call writes its timestamps whether or not it is blocked:
\* after the call the stored history holds exactly the attempts retained so
\* far, blocked ones included, and the attempts of this call.
C3_BlockedAttemptsAreStored ==
  \A j \in Gets :
    calls[j].op = "limit" =>
      LET stored == StoredList(calls[j].post)
          kept == Retained(j)
      IN /\ Len(stored) = Cardinality(kept)
         /\ \A a \in kept :
              Occurrences(stored, Stamp(a))
                = Cardinality({b \in kept : Stamp(b) = Stamp(a)})
         /\ Written(j) \subseteq kept

\* A blocked limit call whose own timestamp went into the stored history next
\* to the timestamp of an earlier call.
C3_Witness ==
  \E j \in Limits :
    /\ calls[j].info.blocked
    /\ Occurrences(StoredList(calls[j].post), calls[j].now) >= 1
    /\ Len(StoredList(calls[j].pre)) >= 1
    /\ Len(StoredList(calls[j].post)) = Len(StoredList(calls[j].pre)) + calls[j].count

(***************************************************************************)
(* Calls issued without awaiting, in-memory backend.                       *)
(***************************************************************************)
\* The first n calls are limit calls of one action each for one id, all made
\* within one window.
Burst(n) ==
  /\ n \in DOMAIN calls
  /\ \A i \in 1..n : /\ calls[i].op = "limit"
                     /\ calls[i].count = 1
                     /\ calls[i].key = calls[1].key
                     /\ calls[i].now - calls[1].now < interval

Least(a, b) == IF a <= b THEN a ELSE b

\* C5: in-memory, minDifference = 0, empty history: of N limit calls issued
\* without awaiting one another the k-th observes exactly the timestamps of the
\* first k calls, so it is blocked if and only if k > maxInInterval, and
\* exactly min(N, maxInInterval) of the N calls are admitted.
C5_UnawaitedCallsDoNotInterleave ==
  backend = "memory" /\ minDifference = 0 =>
    \A n \in DOMAIN calls :
      Burst(n) =>
        /\ calls[n].ts = [i \in 1..n |-> calls[i].now]
        /\ Verdict(n).blocked <=> n > maxInInterval
        /\ Cardinality({i \in 1..n : ~Verdict(i).blocked}) = Least(n, maxInInterval)

\* Two calls pending at once, the later of them over the limit.
C5_Witness ==
  /\ backend = "memory" /\ minDifference = 0
  /\ \E n \in DOMAIN calls :
       /\ Burst(n)
       /\ n > maxInInterval
       /\ calls[n].phase = "executed"
       /\ calls[n - 1].phase = "executed"

(***************************************************************************)
(* Several processes on one Redis key.                                     *)
(***************************************************************************)
\* The admitted calls whose batches executed within the window ending at the
\* execution of call j and whose clock readings lie within the window ending
\* at the reading of call j.
AdmittedAround(j) ==
  {i \in Admitted : /\ calls[i].key = calls[j].key
                    /\ calls[i].at > calls[j].at - interval
                    /\ calls[i].at <= calls[j].at
                    /\ calls[i].now > calls[j].now - interval
                    /\ calls[i].now <= calls[j].now}

\* C4: Redis backend, limit calls issued concurrently by several processes:
\* each batch takes effect as one step, and among the calls whose batches
\* execute within one window of length interval at most maxInInterval actions
\* are admitted, whatever the interleaving.
C4_ConcurrentLimitsWithinWindow ==
  backend = "redis" /\ (\A i \in DOMAIN calls : calls[i].op = "limit") =>
    \A j \in Admitted : ActionsOf(AdmittedAround(j)) <= maxInInterval

(***************************************************************************)
(* wouldLimit.                                                             *)
(***************************************************************************)
\* The call whose step was the k-th to take effect.
StepAt(k) == CHOOSE i \in DOMAIN calls : calls[i].phase # "sent" /\ calls[i].seq = k

EmptyHistory == [list |-> <<>>, exp |-> {}]

Ascending(list) == SortSeq(list, LAMBDA a, b : a < b)

RECURSIVE HistoryWithoutWoulds(_, _)
\* The history of id after the first k steps, and the instant its Redis key
\* expires, had the wouldLimit calls among those steps never been made: the
\* limit and clear calls are replayed with their clock readings and execution
\* instants, an in-memory timer fires where it fired, a Redis key expires
\* when the expiry set by its last batch has passed.
HistoryWithoutWoulds(k, key) ==
  IF k = 0 THEN EmptyHistory
  ELSE LET c == calls[StepAt(k)]
           h == HistoryWithoutWoulds(k - 1, key)
           gone == backend = "redis" /\ \E e \in h.exp : c.at >= e
           live == IF gone THEN <<>> ELSE h.list
           kept == SelectSeq(live, LAMBDA t : t > c.now - interval)
           new == kept \o [i \in 1..c.count |-> c.now + (i - 1)]
       IN IF c.key # key \/ c.op = "would" THEN h
          ELSE IF c.op = "clear" THEN EmptyHistory
          ELSE IF c.op = "expire"
               THEN (IF backend = "memory" THEN EmptyHistory ELSE h)
          ELSE [list |-> IF backend = "redis" THEN Ascending(new) ELSE new,
                exp |-> {c.at + redisTtl * MicrosPerMilli * MicrosPerMilli}]

\* C6: wouldLimit calls do not count: a limitWithInfo call returns the same
\* RateLimitInfo, at the same clock value, whether or not wouldLimit calls
\* were made before it.
C6_WouldLimitDoesNotCount ==
  \A j \in Limits :
    calls[j].info = calculateInfo(HistoryWithoutWoulds(calls[j].seq, calls[j].key).list)

\* C7: a wouldLimit call alters neither the stored state nor the expiry: the
\* entry of its id (in-memory: array and timer; Redis: member set and expiry
\* instant) is the same after the call as before it.
C7_WouldLimitLeavesStoreAlone ==
  \A w \in Gets : calls[w].op = "would" => calls[w].post = calls[w].pre

\* list, with v inserted after the items not larger than v (ZADD with a fresh
\* member into a set read back by ascending score)
InsertByScore(list, v) ==
  SelectSeq(list, LAMBDA t : t <= v) \o <<v>> \o SelectSeq(list, LAMBDA t : t > v)

\* The list limitWithInfo would hand to calculateInfo in place of wouldLimit
\* call c: the same retained timestamps, with the new one stored among them.
AsLimit(c) ==
  IF backend = "memory" THEN Append(c.ts, c.now) ELSE InsertByScore(c.ts, c.now)

\* C8: wouldLimitWithInfo returns exactly the RateLimitInfo that limitWithInfo
\* would return if invoked instead at the same instant (same fields, same
\* values), other processes having written to the same Redis key or not;
\* checked for the calls during which the clock does not move.
C8_WouldLimitPredictsLimit ==
  \A w \in Woulds :
    calls[w].cur = calls[w].now => calls[w].info = calculateInfo(AsLimit(calls[w]))

(***************************************************************************)
(* The minimum difference.                                                 *)
(***************************************************************************)
\* C9: with minDifference > 0 a limit call made less than minDifference after
\* the previous attempt is blocked with blockedDueToMinDifference = true, and
\* so two admitted calls with no clear between them are at least
\* minDifference apart (calls made one after the other).
C9_MinDifferenceEnforced ==
  minDifference > 0 =>
    \A j \in Limits :
      Sequential(SinceClear(j)) =>
        \A i \in SinceClear(j) :
          /\ calls[i].op = "limit"
          /\ calls[i].seq < calls[j].seq
          /\ calls[j].now - calls[i].now < minDifference
          => /\ calls[j].info.blocked
             /\ calls[j].info.blockedDueToMinDifference

\* C10: with minDifference omitted or zero no limitWithInfo or
\* wouldLimitWithInfo call returns blockedDueToMinDifference = true, whatever
\* the history, one whose last timestamp is below the one before it included.
C10_NoMinDifferenceNoBlock ==
  minDifference = 0 => \A j \in Resolved : ~calls[j].info.blockedDueToMinDifference

(***************************************************************************)
(* Pacing.                                                                 *)
(***************************************************************************)
\* The limit calls on call j's key that took effect up to and including j.
LimitsUpTo(j) ==
  {i \in DOMAIN calls : /\ calls[i].op = "limit"
                        /\ calls[i].phase # "sent"
                        /\ calls[i].key = calls[j].key
                        /\ calls[i].seq <= calls[j].seq}

\* b is the call of S that took effect next after a.
Consecutive(S, a, b) ==
  /\ calls[a].seq < calls[b].seq
  /\ \A c \in S : ~(calls[a].seq < calls[c].seq /\ calls[c].seq < calls[b].seq)

\* Single actions, each strictly more than interval / maxInInterval and at
\* least minDifference after the one before it.
Paced(S) ==
  /\ \A i \in S : calls[i].count = 1
  /\ \A a, b \in S :
       Consecutive(S, a, b) =>
         /\ (calls[b].now - calls[a].now) * maxInInterval > interval
         /\ calls[b].now - calls[a].now >= minDifference

RunFrom(i, j) ==
  {c \in SinceClear(j) : calls[c].op = "limit" /\ calls[c].seq >= calls[i].seq}

\* Each call of S strictly less than interval / maxInInterval after the one
\* before it.
Hammering(S) ==
  \A a, b \in S :
    Consecutive(S, a, b) =>
      /\ calls[b].now >= calls[a].now
      /\ (calls[b].now - calls[a].now) * maxInInterval < interval

\* C12: a client that keeps attempting faster than the allowed rate stays
\* blocked: in a run of limit calls made one after the other, each less than
\* interval / maxInInterval after the one before it, every call after the
\* first maxInInterval of the run returns blocked = true.
C12_HammeringStaysBlocked ==
  \A j \in Limits :
    Sequential(SinceClear(j)) =>
      \A i \in SinceClear(j) :
        /\ calls[i].op = "limit"
        /\ Hammering(RunFrom(i, j))
        /\ Cardinality(RunFrom(i, j)) > maxInInterval
        => calls[j].info.blocked

\* A run at three different instants whose last call is blocked only because
\* the blocked call before it was counted.
C12_Witness ==
  \E j \in Limits :
    /\ Sequential(SinceClear(j))
    /\ calls[j].info.blocked
    /\ \E i \in SinceClear(j), b \in SinceClear(j) :
         /\ calls[i].op = "limit"
         /\ Hammering(RunFrom(i, j))
         /\ Cardinality(RunFrom(i, j)) > maxInInterval + 1
         /\ b \in RunFrom(i, j)
         /\ calls[i].now < calls[b].now /\ calls[b].now < calls[j].now
         /\ calls[b].info.blocked
         /\ calls[i].now <= calls[j].now - interval

(***************************************************************************)
(* Saturation and recovery.                                                *)
(***************************************************************************)
\* The limit and wouldLimit calls since the last clear that took effect
\* before call j.
Before(j) == SinceClear(j) \ {j}

\* The calls of S were made within a millisecond of one another.
Rapid(S) == \A a, b \in S : calls[a].now - calls[b].now < MicrosPerMilli

\* No call of S waited between reading its clock and updating the store.
Prompt(S) ==
  \A i \in S : calls[i].at <= calls[i].now /\ calls[i].now - calls[i].at <= ClockSkew

\* Before call j, itself a single action, the identifier saw exactly
\* maxInInterval rapid limit calls, all admitted, and then one more, blocked
\* because of the count.
Saturated(j) ==
  /\ Cardinality(Before(j)) = maxInInterval + 1
  /\ Rapid(Before(j))
  /\ Prompt(SinceClear(j))
  /\ \A i \in Before(j) : calls[i].op = "limit"
  /\ calls[j].count = 1
  /\ \E b \in Before(j) :
       /\ \A i \in Before(j) \ {b} : calls[i].seq < calls[b].seq
       /\ calls[b].phase = "returned" /\ calls[b].info.blockedDueToCount
       /\ \A i \in Before(j) \ {b} :
            calls[i].phase = "returned" /\ ~calls[i].info.blocked

\* The clock reading of the first call before j, and the latest timestamp
\* the calls before j wrote.
FirstReading(j) == CHOOSE t \in {calls[i].now : i \in Before(j)} :
                     \A i \in Before(j) : t <= calls[i].now

LastStamp(j) ==
  LET stamps == {Stamp(a) : a \in UNION {Written(i) : i \in Before(j)}}
  IN CHOOSE t \in stamps : \A u \in stamps : t >= u

\* C13 (as stated): after maxInInterval rapid limit calls and an immediate
\* blocked one, a limit call made once interval has elapsed since the first of
\* them returns blocked = false.
C13_RecoversAfterIntervalFromFirst ==
  \A j \in Limits :
    Saturated(j) /\ calls[j].now >= FirstReading(j) + interval => ~calls[j].info.blocked

\* C13 (amended): after maxInInterval rapid limit calls and an immediate
\* blocked one, a limit call made once interval has elapsed since the last of
\* the timestamps those calls wrote, the blocked one's included, returns
\* blocked = false.
C13_RecoversAfterIntervalFromLast ==
  \A j \in Limits :
    Saturated(j) /\ calls[j].now >= LastStamp(j) + interval => ~calls[j].info.blocked

\* A saturated identifier and a call exactly interval after the saturating
\* calls, whose timestamps are still stored when it is made.
C13_Witness ==
  \E j \in Limits :
    /\ Saturated(j)
    /\ calls[j].now = LastStamp(j) + interval
    /\ Len(StoredList(calls[j].pre)) = maxInInterval + 1

(***************************************************************************)
(* Several identifiers, several namespaces.                                *)
(***************************************************************************)
\* What the limiter of process p holds for id.
EntryOf(p, id) ==
  IF backend = "memory" THEN MemEntry(storage, ttls, id)
  ELSE RedisEntry(makeKey(namespaces[p], id))

\* The records of the steps that touch the store in the current transition.
StoreSteps ==
  {i \in DOMAIN calls' : /\ calls'[i].seq # 0
                         /\ i \in DOMAIN calls => calls[i].seq = 0}

\* Step i is a call of process p's limiter naming id, or the expiry of its entry.
Names(i, p, id) ==
  LET c == calls'[i]
  IN IF c.op = "expire"
     THEN IF backend = "memory" THEN id = c.id ELSE makeKey(namespaces[p], id) = c.key
     ELSE c.proc = p /\ c.id = id

LimiterProcs == IF backend = "memory" THEN MemProcs ELSE RedisProcs

\* C14: a limit, wouldLimit or clear call naming identifier A, and the firing of
\* A's expiry, leave what the same limiter holds for every other identifier B
\* (its stored history and its pending expiry) unchanged.
C14_DistinctIdentifiersAreIndependent ==
  [][\A i \in StoreSteps : \A p \in LimiterProcs : \A A \in ids :
       Names(i, p, A) =>
         \A B \in ids \ {A} : EntryOf(p, B)' = EntryOf(p, B)]_vars

\* The same for identifiers that differ in their string form.
DistinctStringsAreIndependent ==
  [][\A i \in StoreSteps : \A p \in LimiterProcs : \A A \in ids :
       Names(i, p, A) =>
         \A B \in ids : String(B) # String(A) => EntryOf(p, B)' = EntryOf(p, B)]_vars

\* Calls made through the Redis limiters.
RedisCalls == {i \in Issued : backend = "redis"}

\* C15: two Redis limiters on one server whose namespaces differ never use the
\* same key, whatever identifiers they are called with.
C15_NamespacesNeverCollide ==
  \A i, j \in RedisCalls :
    namespaces[calls[i].proc] # namespaces[calls[j].proc] => calls[i].key # calls[j].key

\* The same for identifiers of one string form.
SameIdNeverCollides ==
  \A i, j \in RedisCalls :
    /\ namespaces[calls[i].proc] # namespaces[calls[j].proc]
    /\ String(calls[i].id) = String(calls[j].id)
    => calls[i].key # calls[j].key

(***************************************************************************)
(* clear.                                                                  *)
(***************************************************************************)
\* The clear calls after which call j is the next step on the same key.
ClearedJustBefore(j) ==
  {c \in DOMAIN calls : /\ calls[c].op = "clear"
                        /\ calls[c].key = calls[j].key
                        /\ c < j
                        /\ calls[c].seq < calls[j].seq
                        /\ Between(c, j) = {}}

\* C16: the limitWithInfo(id) call that follows clear(id), with no other call
\* on id between them, returns the verdict of an identifier never used: its
\* history is the one timestamp just written, blocked is false and
\* actionsRemaining is maxInInterval - 1, whatever was stored before the clear.
C16_ClearResets ==
  \A j \in Limits :
    calls[j].count = 1 /\ ClearedJustBefore(j) # {} =>
      /\ calls[j].ts = <<calls[j].now>>
      /\ ~calls[j].info.blocked
      /\ ~calls[j].info.blockedDueToCount
      /\ ~calls[j].info.blockedDueToMinDifference
      /\ calls[j].info.actionsRemaining = maxInInterval - 1
      /\ calls[j].info.millisecondsUntilAllowed =
           (calculateInfo(<<calls[j].now>>)).millisecondsUntilAllowed

\* A clear of an identifier at its limit, followed by a call within the window
\* of the cleared timestamps.
C16_Witness ==
  \E j \in Limits : \E c \in ClearedJustBefore(j) :
    /\ calls[j].count = 1
    /\ Len(StoredList(calls[c].pre)) >= maxInInterval
    /\ \A x \in DOMAIN StoredList(calls[c].pre) :
         StoredList(calls[c].pre)[x] > calls[j].now - interval

(***************************************************************************)
(* Construction.                                                           *)
(***************************************************************************)
Missing(name) == name \notin DOMAIN options

\* C17: the constructor throws when interval is missing, zero or negative, when
\* maxInInterval is missing, zero or negative, or when minDifference is
\* negative, and succeeds otherwise (minDifference omitted, zero or positive);
\* a limiter that exists has interval > 0, maxInInterval > 0 and
\* minDifference >= 0, and minDifference 0 when the option was omitted.
C17_ConstructionIsValidated ==
  /\ limiter # "none" =>
       (limiter = "threw" <=>
          \/ Missing("interval") \/ (~Missing("interval") /\ options.interval <= 0)
          \/ Missing("maxInInterval")
          \/ (~Missing("maxInInterval") /\ options.maxInInterval <= 0)
          \/ (~Missing("minDifference") /\ options.minDifference < 0))
  /\ limiter = "constructed" =>
       /\ interval > 0 /\ maxInInterval > 0 /\ minDifference >= 0
       /\ Missing("minDifference") => minDifference = 0

\* A limiter constructed without minDifference.
C17_Witness ==
  /\ limiter = "constructed"
  /\ calls = <<>>
  /\ Missing("minDifference")
  /\ options.interval = 2000 /\ interval = 2000000
  /\ minDifference = 0

(***************************************************************************)
(* millisecondsUntilAllowed and actionsRemaining.                          *)
(***************************************************************************)
\* The calls on call j's key that took effect between steps i and j.
CallsBetween(i, j) == {r \in Between(i, j) : calls[r].op # "expire"}

\* Call j is the same caller's next call on the key of call i, which has
\* returned, and the calls in their history took effect at their clock readings.
NextCall(i, j) ==
  /\ calls[i].key = calls[j].key
  /\ calls[i].proc = calls[j].proc
  /\ calls[i].seq < calls[j].seq
  /\ i < j
  /\ CallsBetween(i, j) = {}
  /\ Sequential(SinceClear(j))

\* Call j reads the clock w milliseconds after call i did.
Later(i, j, w) == calls[j].now = calls[i].now + millisecondsToMicroseconds(w)

\* C18: when limitWithInfo(id, count) returns millisecondsUntilAllowed = w, a
\* limit(id) call made w milliseconds later, with no other call for id in
\* between, is not blocked; for every count, whether or not the reporting call
\* was blocked.
C18_WaitIsSufficient ==
  \A i, j \in Limits :
    /\ NextCall(i, j)
    /\ calls[j].count = 1
    /\ Later(i, j, calls[i].info.millisecondsUntilAllowed)
    => ~calls[j].info.blocked

\* The same for histories of single actions only.
SingleActionsWaitIsSufficient ==
  \A i, j \in Limits :
    /\ NextCall(i, j)
    /\ \A r \in SinceClear(j) : calls[r].count <= 1
    /\ Later(i, j, calls[i].info.millisecondsUntilAllowed)
    => ~calls[j].info.blocked

SingleActionsWaitWitness ==
  \E i, j \in Limits :
    /\ NextCall(i, j)
    /\ \A r \in SinceClear(j) : calls[r].count <= 1
    /\ calls[i].info.blocked
    /\ calls[i].info.millisecondsUntilAllowed > 0
    /\ Later(i, j, calls[i].info.millisecondsUntilAllowed)

\* The instant a returned call took as the current time.
Instant(i) == IF calls[i].op = "would" THEN calls[i].cur ELSE calls[i].now

\* Call j is a limit of one action issued right after call i at the same instant.
RightAfter(i, j) ==
  /\ NextCall(i, j)
  /\ calls[j].count = 1
  /\ calls[j].now = Instant(i)
  /\ calls[j].now = calls[i].now

\* C19: in every RateLimitInfo returned by limitWithInfo or wouldLimitWithInfo,
\* millisecondsUntilAllowed is 0 whenever a limit call for the same identifier
\* issued right after at the same instant is not blocked.
C19_ZeroWaitWhenPermitted ==
  \A i \in Limits \cup Woulds : \A j \in Limits :
    RightAfter(i, j) /\ ~calls[j].info.blocked =>
      calls[i].info.millisecondsUntilAllowed = 0

\* The same for the info returned by limitWithInfo.
LimitReportsZeroWaitWhenPermitted ==
  \A i, j \in Limits :
    RightAfter(i, j) /\ ~calls[j].info.blocked =>
      calls[i].info.millisecondsUntilAllowed = 0

LimitReportsZeroWaitWitness ==
  \E i, j \in Limits :
    /\ RightAfter(i, j) /\ ~calls[j].info.blocked
    /\ calls[i].now > 0

\* Limit call j of one action belongs to the run of such calls issued by the
\* same caller right after call i, all at the instant of call i.
InRunAfter(i, j) ==
  /\ calls[i].key = calls[j].key
  /\ calls[i].seq < calls[j].seq
  /\ Sequential(SinceClear(j))
  /\ \A r \in Between(i, j) \cup {j} :
       /\ calls[r].op = "limit"
       /\ calls[r].phase = "returned"
       /\ calls[r].count = 1
       /\ calls[r].proc = calls[i].proc
       /\ calls[r].now = Instant(i)
       /\ calls[r].now = calls[i].now

\* The position of call j in that run, counted from 1.
RankAfter(i, j) == Cardinality(Between(i, j)) + 1

\* C20: with minDifference = 0, when limitWithInfo or wouldLimitWithInfo returns
\* actionsRemaining = k, the next k limit calls issued immediately afterwards
\* are not blockedDueToCount and the (k+1)-th is; actionsRemaining is never
\* negative.
C20_ActionsRemainingIsExact ==
  \A i \in Limits \cup Woulds :
    /\ calls[i].info.actionsRemaining >= 0
    /\ minDifference = 0 =>
         \A j \in Limits :
           InRunAfter(i, j) =>
             /\ RankAfter(i, j) <= calls[i].info.actionsRemaining
                  => ~calls[j].info.blockedDueToCount
             /\ RankAfter(i, j) = calls[i].info.actionsRemaining + 1
                  => calls[j].info.blockedDueToCount

\* The same for the info returned by limitWithInfo.
LimitActionsRemainingIsExact ==
  \A i \in Limits :
    /\ calls[i].info.actionsRemaining >= 0
    /\ minDifference = 0 =>
         \A j \in Limits :
           InRunAfter(i, j) =>
             /\ RankAfter(i, j) <= calls[i].info.actionsRemaining
                  => ~calls[j].info.blockedDueToCount
             /\ RankAfter(i, j) = calls[i].info.actionsRemaining + 1
                  => calls[j].info.blockedDueToCount

LimitActionsRemainingWitness ==
  \E i, j \in Limits :
    /\ minDifference = 0
    /\ InRunAfter(i, j)
    /\ calls[i].info.actionsRemaining = 1
    /\ RankAfter(i, j) = 2
    /\ calls[i].now > 0

(***************************************************************************)
(* limit(id, count).                                                       *)
(***************************************************************************)
\* The attempts retained when call j takes effect, its own left out.
RetainedBefore(j) == Retained(j) \ Written(j)

\* C21: limit(id, count) counts as count actions whatever its verdict: the call
\* adds exactly count timestamps now, now + 1, ..., now + count - 1 to the
\* retained history, on both backends, and it is blockedDueToCount if and only
\* if the attempts retained before the call plus count exceed maxInInterval.
C21_CountActionsAreRecorded ==
  \A j \in Gets :
    calls[j].op = "limit" =>
      LET stored == StoredList(calls[j].post)
          before == RetainedBefore(j)
      IN /\ Len(stored) = Cardinality(before) + calls[j].count
         /\ \A k \in 0..(calls[j].count - 1) :
              Occurrences(stored, calls[j].now + k)
                = Cardinality({b \in before : Stamp(b) = calls[j].now + k}) + 1
         /\ Verdict(j).blockedDueToCount
              <=> Cardinality(before) + calls[j].count > maxInInterval

\* A call of two actions that is blocked by the count with one attempt retained
\* before it, and whose two timestamps are stored all the same.
C21_Witness ==
  \E j \in Limits :
    /\ calls[j].count = 2
    /\ calls[j].info.blockedDueToCount
    /\ Cardinality(RetainedBefore(j)) = 1
    /\ maxInInterval = 2
    /\ Occurrences(StoredList(calls[j].post), calls[j].now + 1) = 1

(***************************************************************************)
(* Store failures.                                                         *)
(***************************************************************************)
\* C22: when the Redis batch of a limit or wouldLimit call fails (exec hands
\* back an error, reports errors for its commands, or yields no result) the
\* call ends in a rejected promise and returns no verdict.
C22_StoreFailuresSurface ==
  \A i \in Failed : calls[i].phase = "rejected"

\* The same for src/src/index.ts.
CurrentRevisionFailuresSurface ==
  version = "current" => \A i \in Failed : calls[i].phase = "rejected"

CurrentRevisionFailuresWitness ==
  /\ version = "current"
  /\ \E i \in Failed : calls[i].reply = "errorsIoredis" /\ calls[i].op = "limit"

\* A failed call stays as it ended: its batch is not sent again.
FailedCallsAreFinal ==
  [][\A i \in Failed : calls'[i] = calls[i]]_vars

(***************************************************************************)
(* The expiry of a Redis key.                                              *)
(***************************************************************************)
MicrosPerSecond == MicrosPerMilli * MicrosPerMilli

\* The least whole number of seconds that is not shorter than the interval.
IntervalInWholeSeconds ==
  CHOOSE s \in 0..(interval \div MicrosPerSecond + 1) :
    s * MicrosPerSecond >= interval /\ (s - 1) * MicrosPerSecond < interval

\* The getTimestamps batches after which the key exists.
BatchesLeavingKey ==
  {i \in Gets : backend = "redis" /\ calls[i].post.ts # {}}

\* C23: after every Redis getTimestamps batch the key expires the interval
\* rounded up to whole seconds after the batch ran, which is never sooner than
\* interval after it.
C23_ExpiryIsIntervalInWholeSeconds ==
  \A i \in BatchesLeavingKey :
    /\ calls[i].post.ttl = {calls[i].at + IntervalInWholeSeconds * MicrosPerSecond}
    /\ \A e \in calls[i].post.ttl : e - calls[i].at >= interval

\* A batch of a limiter whose interval is not a whole number of seconds.
C23_Witness ==
  \E i \in BatchesLeavingKey :
    /\ interval = 1500 * MicrosPerMilli
    /\ calls[i].at > 0
    /\ calls[i].post.ttl = {calls[i].at + 2 * MicrosPerSecond}

(***************************************************************************)
(* Forgetting an idle identifier, in-memory backend.                       *)
(***************************************************************************)
\* The limit calls made for id so far.
LimitCallsFor(id) ==
  {i \in DOMAIN calls : calls[i].op = "limit" /\ calls[i].key = String(id)}

\* interval has gone by since the last limit call for id, and every timer that
\* was due has run.
IdleForInterval(id) ==
  /\ backend = "memory"
  /\ LimitCallsFor(id) # {}
  /\ \A i \in LimitCallsFor(id) : calls[i].now + interval <= now
  /\ \A k \in DOMAIN ttls : now < ttls[k]

\* C24: in-memory, once interval has elapsed after the last limit call for id
\* the storage map holds no entry and no timer for id, whatever wouldLimit
\* calls were made for id in the meantime or afterwards.
C24_IdleHistoryIsForgotten ==
  \A id \in ids :
    IdleForInterval(id) =>
      String(id) \notin DOMAIN storage /\ String(id) \notin DOMAIN ttls

\* The same for the timestamps and the timer: none is left, though an empty
\* entry may be.
IdleTimestampsAreForgotten ==
  \A id \in ids :
    IdleForInterval(id) =>
      /\ String(id) \in DOMAIN storage => storage[String(id)] = <<>>
      /\ String(id) \notin DOMAIN ttls

IdleTimestampsWitness ==
  \E id \in ids :
    /\ IdleForInterval(id)
    /\ String(id) \in DOMAIN storage
    /\ \E i \in DOMAIN calls : calls[i].op = "expire"

(***************************************************************************)
(* The function-style limiter: timeLeft as a boolean.                      *)
(***************************************************************************)
\* The earlier attempts for call j's key that lie in its window.
LegacyPrior(j) ==
  {i \in LegacyCalls : /\ calls[i].key = calls[j].key
                       /\ calls[i].seq < calls[j].seq
                       /\ calls[i].now > calls[j].now - interval}

\* Fewer than maxInInterval earlier attempts in the window and, when
\* minDifference is set, at least minDifference since the previous one.
LegacyWithinLimits(j) ==
  /\ Cardinality(LegacyPrior(j)) < maxInInterval
  /\ minDifference > 0 =>
       \A i \in LegacyPrior(j) : calls[j].now - calls[i].now >= minDifference

timeLeft(j) == calls[j].info.millisecondsUntilAllowed

\* C25: in the function-style limiter, in-memory and Redis, timeLeft is 0 if
\* and only if the action is within limits, and greater than 0 whenever the
\* limit was exceeded.
C25_TimeLeftIsABoolean ==
  \A j \in LegacyCalls : timeLeft(j) = 0 <=> LegacyWithinLimits(j)

\* One direction: an action within limits gets timeLeft 0, and timeLeft is
\* never negative.
LegacyWithinLimitsGetsZero ==
  \A j \in LegacyCalls :
    /\ timeLeft(j) >= 0
    /\ LegacyWithinLimits(j) => timeLeft(j) = 0

LegacyWithinLimitsWitness ==
  \E j \in LegacyCalls : LegacyWithinLimits(j) /\ LegacyPrior(j) # {} /\ minDifference > 0

(***************************************************************************)
(* The boundary of the window.                                             *)
(***************************************************************************)
\* The timestamps call j itself writes, as a list.
OwnStamps(j) == [k \in 1..calls[j].count |-> calls[j].now + (k - 1)]

\* The list getTimestamps returned to call j is the stored timestamps that
\* satisfy InWindow, and the timestamps the call wrote itself.
ReturnsStored(j, InWindow(_)) ==
  LET stored == SelectSeq(StoredList(calls[j].pre), InWindow)
      values == {calls[j].ts[x] : x \in DOMAIN calls[j].ts}
                  \cup {stored[x] : x \in DOMAIN stored}
  IN /\ Len(calls[j].ts) = Len(stored) + calls[j].count
     /\ \A v \in values :
          Occurrences(calls[j].ts, v)
            = Occurrences(stored, v) + Occurrences(OwnStamps(j), v)

OnBoth == {i \in DOMAIN calls : /\ backend = "both"
                                /\ calls[i].op \in {"limit", "would"}
                                /\ calls[i].key = String(calls[i].id)}

OnRedis(i) == i + 1

\* C27: for every sequence of limitWithInfo, wouldLimitWithInfo and clear calls
\* and clock advances of one process, entries expiring by timer and by TTL
\* included, the in-memory limiter and the Redis limiter of the same
\* configuration return the same RateLimitInfo at every step.
C27_BackendsAgree ==
  \A i \in OnBoth : calls[i].info = calls[OnRedis(i)].info

\* The same for limiters of src/src/index.ts, whose calls record one action.
CurrentBackendsAgree ==
  version = "current" => C27_BackendsAgree

\* Both limiters blocked a call, after an entry of each had expired.
CurrentBackendsAgreeWitness ==
  /\ version = "current"
  /\ \E i \in OnBoth : /\ calls[i].info.blocked
                        /\ calls[OnRedis(i)].info.blocked
                        /\ \E d, e \in 1..(i - 1) : /\ calls[d].op = "expire"
                                                    /\ calls[e].op = "expire"
                                                    /\ calls[d].key # calls[e].key

\* The same for limiters of part_008 as long as every call records one action.
SingleActionBackendsAgree ==
  (\A i \in DOMAIN calls : calls[i].count <= 1) => C27_BackendsAgree

(***************************************************************************)
(* The first action.                                                       *)
(***************************************************************************)
\* C28: a limit(id) call of one action made when no attempt for id is retained
\* in the window (the identifier is new, was cleared, its entry expired, or at
\* least interval has passed since its last attempt) is not blocked, and
\* neither reason flag is set, whatever the configuration.
C28_FirstActionIsNeverBlocked ==
  \A j \in Limits :
    calls[j].count = 1 /\ RetainedBefore(j) = {} =>
      /\ ~calls[j].info.blocked
      /\ ~calls[j].info.blockedDueToCount
      /\ ~calls[j].info.blockedDueToMinDifference

\* One history with a first call on a new identifier, a first call after a
\* clear, and a first call exactly interval after the last attempt, all
\* permitted.
C28_Witness ==
  \E n, c, s \in Limits :
    /\ \A j \in {n, c, s} : /\ calls[j].count = 1
                             /\ RetainedBefore(j) = {}
                             /\ ~calls[j].info.blocked
    /\ calls[n].seq = 1
    /\ ClearedJustBefore(c) # {}
    /\ calls[s].now = calls[c].now + interval
    /\ ClearedJustBefore(s) = {}

(***************************************************************************)
(* The order of the list handed to calculateInfo.                          *)
(***************************************************************************)
\* The timestamp of the calling action: the last one a limit call writes, the
\* clock reading a wouldLimit call appends.
OwnTimestamp(j) ==
  IF calls[j].op = "would" THEN calls[j].cur ELSE calls[j].now + calls[j].count - 1

\* The list of call j ends with the call's own timestamp, and the element
\* before it is the latest of all the others.
EndsWithOwnAndPredecessor(j) ==
  LET list == calls[j].list
      n == Len(list)
  IN /\ n >= 1
     /\ list[n] = OwnTimestamp(j)
     /\ \A x \in 1..(n - 1) : list[x] <= list[n - 1]

\* C29: in every list handed to calculateInfo, by limitWithInfo and by
\* wouldLimitWithInfo, on either backend and however the calls of other
\* processes interleave, the last element is the calling action's own
\* timestamp and the one before it is the most recent earlier attempt.
C29_ListEndsWithOwnTimestamp ==
  \A j \in Resolved : EndsWithOwnAndPredecessor(j)

\* The same where each call takes effect at its clock reading and records one
\* action at most.
SequentialListEndsWithOwnTimestamp ==
  \A j \in Resolved :
    /\ Sequential(SinceClear(j))
    /\ \A i \in SinceClear(j) : calls[i].count <= 1
    => EndsWithOwnAndPredecessor(j)

\* A call blocked by the min-difference test on a list of three timestamps.
SequentialListWitness ==
  \E j \in Resolved :
    /\ Sequential(SinceClear(j))
    /\ \A i \in SinceClear(j) : calls[i].count <= 1
    /\ Len(calls[j].list) = 3
    /\ calls[j].info.blockedDueToMinDifference
    /\ calls[j].list[2] < calls[j].list[3]

(***************************************************************************)
(* Equal timestamps.                                                       *)
(***************************************************************************)
\* The retained attempts of step j whose timestamp is v.
RetainedAt(j, v) == {a \in Retained(j) : Stamp(a) = v}

TimersOf(id) == {tm \in timers : tm.id = String(id)}

\* The limit calls that wrote to key k.
WritesTo(k) == {i \in Gets : calls[i].op = "limit" /\ calls[i].key = k /\ calls[i].count > 0}

\* The most recent of them.
LastWriteTo(k) == CHOOSE i \in WritesTo(k) : \A o \in WritesTo(k) : calls[o].seq <= calls[i].seq

\* C31: in the in-memory backend every identifier has at most one pending
\* expiry timer, due exactly interval after the most recent limit call that
\* wrote to the identifier, and the timer map holds the pending timers and no
\* others: a fired or cancelled timer is no longer in it.
C31_OneTimerPerIdentifier ==
  backend = "memory" =>
    /\ \A id \in ids :
         /\ Cardinality(TimersOf(id)) <= 1
         /\ \A tm \in TimersOf(id) :
              /\ WritesTo(String(id)) # {}
              /\ tm.deadline = calls[LastWriteTo(String(id))].now + interval
    /\ timers = {[id |-> k, deadline |-> ttls[k]] : k \in DOMAIN ttls}

\* A second write, a second later than the first, has replaced the timer of
\* the first; the one timer pending is due interval after the second.
C31_Witness ==
  /\ backend = "memory"
  /\ \E i, j \in WritesTo("1") :
       /\ calls[j].now > calls[i].now
       /\ j = LastWriteTo("1")
       /\ timers = {[id |-> "1", deadline |-> calls[j].now + interval]}
       /\ \A r \in Between(i, j) : calls[r].op \notin {"clear", "expire"}

(***************************************************************************)
(* clear and the pending timer.                                            *)
(***************************************************************************)
\* The step is the callback of an in-memory timer.
TimerFires ==
  /\ backend = "memory"
  /\ Len(calls') = Len(calls) + 1
  /\ calls'[Len(calls')].op = "expire"

\* Timer tm was scheduled by a write that no clear of its identifier followed.
ScheduledSinceClear(tm) ==
  \E w \in WritesTo(tm.id) :
    /\ calls[w].now + interval = tm.deadline
    /\ \A c \in DOMAIN calls :
         calls[c].op = "clear" /\ calls[c].key = tm.id => calls[c].seq < calls[w].seq

\* C32: clear(id) cancels the pending expiry at once: a timer that fires was
\* scheduled by a write made after the last clear of its identifier, so no
\* timer scheduled before a clear deletes a history written after it.
C32_ClearCancelsTimer ==
  [][TimerFires => \A tm \in timers \ timers' : ScheduledSinceClear(tm)]_vars

\* A write, a clear while its timer was pending, a later write: the deadline
\* of the first timer has passed, no timer is due and the later history is
\* still stored.
C32_Witness ==
  /\ backend = "memory"
  /\ \E w, c, v \in DOMAIN calls :
       /\ w \in WritesTo("1") /\ v \in WritesTo("1")
       /\ calls[c].op = "clear"
       /\ calls[w].seq < calls[c].seq /\ calls[c].seq < calls[v].seq
       /\ calls[c].pre.ttl = {calls[w].now + interval}
       /\ calls[v].now > calls[w].now
       /\ now >= calls[w].now + interval
       /\ dueTimers([number |-> 1]) = {}
       /\ "1" \in DOMAIN storage
       /\ storage["1"] = <<calls[v].now>>

(***************************************************************************)
(* Calls of several actions and the min-difference test.                   *)
(***************************************************************************)
\* Every timestamp call j found stored is at least minDifference before the
\* call's clock reading.
AfterMinDifference(j) ==
  \A x \in DOMAIN StoredList(calls[j].pre) :
    StoredList(calls[j].pre)[x] <= calls[j].now - minDifference

\* C33: with minDifference > 0, a limitWithInfo(id, count) call with
\* count >= 2 made at least minDifference after the previous attempt is not
\* blockedDueToMinDifference, as the same call with count = 1 would not be:
\* only the gap between the last earlier timestamp and the first new one is
\* tested.
C33_BulkChecksBoundaryOnly ==
  \A j \in Limits :
    minDifference > 0 /\ calls[j].count >= 2 /\ AfterMinDifference(j) =>
      ~calls[j].info.blockedDueToMinDifference

\* The same for a call of one action.
SingleActionAfterMinDifference ==
  \A j \in Limits :
    minDifference > 0 /\ calls[j].count = 1 /\ AfterMinDifference(j) =>
      ~calls[j].info.blockedDueToMinDifference

\* A call of one action made exactly minDifference after the attempt before it.
SingleActionAfterMinDifferenceWitness ==
  \E j \in Limits :
    /\ minDifference > 0
    /\ calls[j].count = 1
    /\ AfterMinDifference(j)
    /\ Len(calls[j].list) >= 2
    /\ calls[j].list[Len(calls[j].list) - 1] = calls[j].now - minDifference
    /\ ~calls[j].info.blockedDueToMinDifference

(***************************************************************************)
(* What an expiry deletes.                                                 *)
(***************************************************************************)
\* The entries deleted by a timer or by the expiry of a key.
Expiries == {e \in DOMAIN calls : calls[e].op = "expire"}

\* Every timestamp expiry e deleted was outside the window of a call made at
\* that instant.
DeletesOnlyEvicted(e) ==
  \A x \in DOMAIN StoredList(calls[e].pre) :
    StoredList(calls[e].pre)[x] <= calls[e].now - interval

\* C34: whenever an in-memory timer fires or a Redis key expires, every
\* timestamp deleted is already outside the rolling window, so that the expiry
\* changes the verdict of no later call; calls of several actions included.
C34_ExpiryIsInvisible ==
  \A e \in Expiries : DeletesOnlyEvicted(e)

\* The same for the limiters of src/src/index.ts whose calls took effect at
\* their clock readings.
CurrentExpiryIsInvisible ==
  version = "current" =>
    \A e \in Expiries :
      (\A i \in Gets : calls[i].key = calls[e].key => calls[i].now = calls[i].at)
        => DeletesOnlyEvicted(e)

\* A timer or key expiry that deleted two timestamps.
CurrentExpiryWitness ==
  /\ version = "current"
  /\ \E e \in Expiries :
       /\ \A i \in Gets : calls[i].key = calls[e].key => calls[i].now = calls[i].at
       /\ Len(StoredList(calls[e].pre)) = 2

C36_BlockedMeansPositiveWait ==
  \A j \in Resolved :
    /\ calls[j].info.millisecondsUntilAllowed >= 0
    /\ calls[j].info.blocked => calls[j].info.millisecondsUntilAllowed > 0

\* The part that holds of every verdict: the wait is never negative.
WaitIsNeverNegative ==
  \A j \in Resolved : calls[j].info.millisecondsUntilAllowed >= 0

\* The wait is positive with every blocked verdict of a call that took effect
\* at its clock reading, as every call before it did, and that read the clock
\* no later for its hypothetical action.
SequentialBlockedMeansPositiveWait ==
  \A j \in Resolved :
    /\ Sequential(SinceClear(j))
    /\ Instant(j) = calls[j].now
    /\ calls[j].info.blocked
    => calls[j].info.millisecondsUntilAllowed > 0

\* A call blocked by the min-difference test alone, told to wait minDifference.
SequentialBlockedWitness ==
  \E j \in Resolved :
    /\ Sequential(SinceClear(j))
    /\ Instant(j) = calls[j].now
    /\ calls[j].info.blockedDueToMinDifference
    /\ ~calls[j].info.blockedDueToCount
    /\ calls[j].info.millisecondsUntilAllowed = microsecondsToMilliseconds(minDifference)
====
